---- MODULE Spec2Model ----
\* A model of the splop crate (src/src/lib.rs): the SkipFirst gate and the
\* WithStatus iterator wrapper, which routes a wrapped iterator through
\* std::iter::Peekable and pairs every item with a Status {first, last}.
EXTENDS Integers, Sequences, FiniteSets, TLC

\* ---------------------------------------------------------------- bounds
MaxLen == 3          \* longest wrapped sequence
NumElems == 2        \* number of distinct element values
MaxExtraCalls == 3   \* next() calls allowed beyond the sequence length
MaxGateCalls == 3    \* skip_first calls per gate
NumEffects == 2      \* number of distinct effect payloads

Elems == 1..NumElems
Effects == 1..NumEffects
Gates == {"a", "b"}

VARIABLES
    src,      \* the items the wrapped iterator I holds, in order
    fused,    \* TRUE iff I keeps returning None after its first None
    inner,    \* state of I: cursor, exhaustion signalled, pull counters
    wrapped,  \* TRUE once with_status() has built the WithStatus
    peeked,   \* Peekable::peeked : Option<Option<I::Item>>
    first,    \* WithStatus::first
    calls,    \* number of WithStatus::next calls made
    nones,    \* number of those calls that returned None
    ret,      \* result of the latest WithStatus::next call
    out,      \* the (item, status) pairs yielded so far, with the pull count
    gate,     \* the SkipFirst instances
    given,    \* per gate, the effects passed to skip_first, in call order
    v,        \* the effects that were executed, in execution order
    unwound   \* per gate, the skip_first calls left by a panic of the effect

iterVars == <<src, fused, inner, wrapped, peeked, first, calls, nones, ret, out>>
gateVars == <<gate, given, v, unwound>>
vars == <<src, fused, inner, wrapped, peeked, first, calls, nones, ret, out,
          gate, given, v, unwound>>

\* ------------------------------------------------------- Option encoding
\* Option<T> is a record of fixed shape so that values stay comparable.
NoElem == 0
None == [some |-> FALSE, val |-> NoElem]
Some(x) == [some |-> TRUE, val |-> x]
\* Option<Option<T>>, the type of Peekable::peeked
NoPeek == [some |-> FALSE, val |-> None]
SomePeek(o) == [some |-> TRUE, val |-> o]

\* -------------------------------------------------------------- Status
Status(f, l) == [first |-> f, last |-> l]

is_first(s) == s.first

is_first_only_NoLastCheck(s) == s.first
is_first_only(s) == s.first /\ ~s.last

is_last(s) == s.last

is_last_only(s) == s.last /\ ~s.first

is_in_between(s) == ~s.first /\ ~s.last

NoPair == [some |-> FALSE, elem |-> NoElem, status |-> Status(FALSE, FALSE)]
SomePair(e, s) == [some |-> TRUE, elem |-> e, status |-> s]

\* ------------------------------------------------- the wrapped iterator
\* I::next: the set of <<result, new state>> outcomes. The first n pulls
\* give the items, pull n + 1 signals exhaustion; what a later pull gives
\* is fixed (None) only for a fused iterator.
InnerNext(it) ==
    LET pulled == [it EXCEPT !.pulls = @ + 1,
                             !.late = IF it.done THEN @ + 1 ELSE @]
    IN  IF it.pos < Len(src)
        THEN {<<Some(src[it.pos + 1]), [pulled EXCEPT !.pos = @ + 1]>>}
        ELSE IF ~it.done \/ fused
        THEN {<<None, [pulled EXCEPT !.done = TRUE]>>}
        ELSE {<<None, pulled>>} \cup {<<Some(e), pulled>> : e \in Elems}

\* I::size_hint of an exact-size iterator: the items not yet pulled.
InnerSizeHint(it) ==
    [lo |-> Len(src) - it.pos, hi |-> Some(Len(src) - it.pos)]

\* ------------------------------------------------------------ Peekable
\* A Peekable<I> is the pair [iter, peeked].
PeekableNextFlatten(pk) ==
    {<<pk.peeked.val, [pk EXCEPT !.peeked = NoPeek]>>}
PeekableNextNoTake(pk) ==
    IF pk.peeked.some
    THEN {<<pk.peeked.val, pk>>}
    ELSE {<<o[1], [pk EXCEPT !.iter = o[2]]>> : o \in InnerNext(pk.iter)}
\* Peekable::next: match self.peeked.take() {Some(v) => v, None => iter.next()}
PeekableNext(pk) ==
    IF pk.peeked.some
    THEN {<<pk.peeked.val, [pk EXCEPT !.peeked = NoPeek]>>}
    ELSE {<<o[1], [pk EXCEPT !.iter = o[2]]>> : o \in InnerNext(pk.iter)}

PeekablePeekLazy(pk) == {<<pk.peeked.val, pk>>}

PeekablePeekNoStore(pk) ==
    IF pk.peeked.some
    THEN {<<pk.peeked.val, pk>>}
    ELSE {<<o[1], [pk EXCEPT !.iter = o[2]]>> : o \in InnerNext(pk.iter)}
\* Peekable::peek: self.peeked.get_or_insert_with(|| iter.next()).as_ref()
PeekablePeek(pk) ==
    IF pk.peeked.some
    THEN {<<pk.peeked.val, pk>>}
    ELSE {<<o[1], [iter |-> o[2], peeked |-> SomePeek(o[1])]>> :
             o \in InnerNext(pk.iter)}

PeekableSizeHintNoPeekLen(pk) ==
    IF pk.peeked.some /\ ~pk.peeked.val.some
    THEN [lo |-> 0, hi |-> Some(0)]
    ELSE InnerSizeHint(pk.iter)
\* Peekable::size_hint: (0, Some(0)) once the buffer records exhaustion,
\* else the inner report plus the buffered item. The counts stay far below
\* usize::MAX, so saturating_add / checked_add are plain additions here.
PeekableSizeHint(pk) ==
    IF pk.peeked.some /\ ~pk.peeked.val.some
    THEN [lo |-> 0, hi |-> Some(0)]
    ELSE LET peek_len == IF pk.peeked.some THEN 1 ELSE 0
             h == InnerSizeHint(pk.iter)
         IN  [lo |-> h.lo + peek_len, hi |-> Some(h.hi.val + peek_len)]

\* ---------------------------------------------------------- WithStatus
Pk == [iter |-> inner, peeked |-> peeked]

size_hint_Raw == InnerSizeHint(inner)
\* WithStatus::size_hint: self.iter.size_hint(), self.iter the Peekable
size_hint == PeekableSizeHint(Pk)

\* ExactSizeIterator::len of WithStatus: self.iter.len()
len == PeekableSizeHint(Pk).lo

StatusOfLastFromItem(f, item, pk) == Status(f, ~item.some)
\* the Status built in WithStatus::next
StatusOf(f, item, pk) == Status(f, ~pk.some)

\* item.map(|elem| (elem, status))
MapItem(item, status) ==
    IF item.some THEN SomePair(item.val, status) ELSE NoPair

Init ==
    /\ src \in UNION {[1..n -> Elems] : n \in 0..MaxLen}
    /\ fused \in BOOLEAN
    /\ inner = [pos |-> 0, done |-> FALSE, pulls |-> 0, late |-> 0]
    /\ wrapped = FALSE
    /\ peeked = NoPeek
    /\ first = FALSE
    /\ calls = 0
    /\ nones = 0
    /\ ret = NoPair
    /\ out = <<>>
    /\ gate = [g \in Gates |-> [made |-> FALSE, first |-> FALSE]]
    /\ given = [g \in Gates |-> <<>>]
    /\ v = <<>>
    /\ unwound = [g \in Gates |-> 0]

with_status_Eager ==
    /\ ~wrapped
    /\ wrapped' = TRUE
    /\ \E o \in InnerNext(inner) :
          /\ inner' = o[2]
          /\ peeked' = SomePeek(o[1])
    /\ first' = TRUE
    /\ UNCHANGED <<src, fused, calls, nones, ret, out, gate, given, v, unwound>>
\* IterStatusExt::with_status = WithStatus::new: iter.peekable(), first: true
with_status ==
    /\ ~wrapped
    /\ wrapped' = TRUE
    /\ peeked' = NoPeek
    /\ first' = TRUE
    /\ UNCHANGED <<src, fused, inner, calls, nones, ret, out, gate, given, v, unwound>>

\* WithStatus::next
next ==
    /\ wrapped
    /\ calls < Len(src) + MaxExtraCalls
    /\ \E o1 \in PeekableNext(Pk) :
       \E o2 \in PeekablePeek(o1[2]) :
          LET item == o1[1]
              status == StatusOf(first, item, o2[1])
              r == MapItem(item, status)
          IN  /\ inner' = o2[2].iter
              /\ peeked' = o2[2].peeked
              /\ first' = FALSE
              /\ ret' = r
              /\ calls' = calls + 1
              /\ nones' = IF r.some THEN nones ELSE nones + 1
              /\ out' = IF r.some
                        THEN Append(out, [elem |-> r.elem, status |-> r.status,
                                          pulls |-> o2[2].iter.pulls])
                        ELSE out
    /\ UNCHANGED <<src, fused, wrapped, gate, given, v, unwound>>

\* ------------------------------------------------------------ SkipFirst
\* SkipFirst::new
SkipFirst_new(g) ==
    /\ ~gate[g].made
    /\ gate' = [gate EXCEPT ![g] = [made |-> TRUE, first |-> TRUE]]
    /\ UNCHANGED <<given, v, unwound>>
    /\ UNCHANGED iterVars

ClearFirst_Shared(g) == [h \in Gates |-> [gate[h] EXCEPT !.first = FALSE]]
\* self.first = false
ClearFirst(g) == [gate EXCEPT ![g].first = FALSE]

Suppressed_Never(g) == FALSE
\* if self.first
Suppressed(g) == gate[g].first

\* The closures passed as f push their payload onto v; the one with the
\* last payload then panics, the others return.
Panics(e) == e = NumEffects

AfterEffect_ResetOnPanic(g, e) ==
    IF Panics(e) THEN [gate EXCEPT ![g].first = TRUE] ELSE gate
\* the gate after f() in the else branch: nothing follows the call, so the
\* gate is as it was whether f returns or unwinds
AfterEffect(g, e) == gate

\* SkipFirst::skip_first(f), f the closure that pushes e onto v; a panic
\* of f unwinds through the call to the caller, who may go on using the gate
skip_first(g, e) ==
    /\ gate[g].made
    /\ Len(given[g]) < MaxGateCalls
    /\ given' = [given EXCEPT ![g] = Append(@, e)]
    /\ IF Suppressed(g)
       THEN /\ gate' = ClearFirst(g)
            /\ v' = v
            /\ unwound' = unwound
       ELSE /\ gate' = AfterEffect(g, e)
            /\ v' = Append(v, [gate |-> g, call |-> Len(given[g]) + 1,
                               val |-> e])
            /\ unwound' = [unwound EXCEPT ![g] = IF Panics(e) THEN @ + 1 ELSE @]
    /\ UNCHANGED iterVars

\* the iterator wrapper on its own
IterNext ==
    \/ with_status
    \/ next

\* the gates on their own
GateNext ==
    \/ \E g \in Gates : SkipFirst_new(g)
    \/ \E g \in Gates, e \in Effects : skip_first(g, e)

Next ==
    \/ IterNext
    \/ GateNext

Spec == Init /\ [][Next]_vars

SpecIter == Init /\ [][IterNext]_vars

\* the gates on their own: the iterator half stays one unwrapped iterator
InitGate == Init /\ src = <<>> /\ fused = TRUE

SpecGate == InitGate /\ [][GateNext]_vars

\* ================================================================ claims
\* The drain of a wrapper by repeated next() calls: every state up to and
\* including the one in which next() has returned None for the first time.
Draining == nones = 0 \/ (nones = 1 /\ ~ret.some)
Drained == nones = 1 /\ ~ret.some

\* C1: in a drain of a sequence of length n >= 1 the i-th produced status is
\* first exactly when i = 1 and last exactly when i = n, and the drain
\* produces the n-th status, so exactly one status is first and one is last.
C1_FirstLastFlags ==
    Draining =>
        /\ \A i \in 1..Len(out) :
              /\ is_first(out[i].status) = (i = 1)
              /\ is_last(out[i].status) = (i = Len(src))
        /\ Drained => Len(out) = Len(src)

C1_Witness ==
    /\ Drained
    /\ Len(src) >= 2
    /\ Len(out) = Len(src)
    /\ is_first(out[1].status)
    /\ is_last(out[Len(out)].status)

\* C2: the elements the wrapper yields until it first returns None are the
\* elements of the wrapped iterator, in order, none dropped, duplicated or
\* added; a fused iterator never adds one afterwards either.
C2_ElementsPreserved ==
    /\ Draining =>
          /\ Len(out) <= Len(src)
          /\ \A i \in 1..Len(out) : out[i].elem = src[i]
    /\ (Drained \/ (fused /\ nones >= 1)) =>
          /\ Len(out) = Len(src)
          /\ \A i \in 1..Len(out) : out[i].elem = src[i]

C2_Witness ==
    /\ Drained
    /\ Len(src) >= 2
    /\ src[1] # src[2]
    /\ Len(out) = Len(src)

\* the entries of v that gate g's calls executed
Executed(g) == SelectSeq(v, LAMBDA x : x.gate = g)

\* C3: of the k effects passed to one gate, exactly the 2nd..k-th have been
\* executed, each once and in call order; the 1st never is.
C3_AllButFirstRun ==
    \A g \in Gates :
        LET k == Len(given[g])
        IN  /\ Len(Executed(g)) = (IF k = 0 THEN 0 ELSE k - 1)
            /\ \A i \in 1..Len(Executed(g)) :
                  Executed(g)[i] = [gate |-> g, call |-> i + 1,
                                    val |-> given[g][i + 1]]

C3_Witness ==
    \E g \in Gates :
        /\ Len(given[g]) = 3
        /\ Len(Executed(g)) = 2
        /\ given[g][1] # given[g][2]

\* C4 as stated: once next() has returned None, the latest next() result is
\* None, whatever the wrapped iterator does after its exhaustion.
C4_Original == nones >= 1 => ~ret.some

\* C4 as amended: over a fused wrapped iterator, once next() has returned
\* None every later next() returns None.
C4_FusedStaysExhausted == (fused /\ nones >= 1) => ~ret.some

C4_Witness == fused /\ nones >= 2 /\ Len(src) >= 1 /\ Len(out) = Len(src)

\* the number of items held in the look-ahead buffer
Buffered == IF peeked.some /\ peeked.val.some THEN 1 ELSE 0

\* An iterator whose exact remaining count is truthful yields nothing beyond
\* it, so it is one that stays exhausted.
ExactSize == fused

\* C5 as stated: the wrapper's size_hint and len equal the wrapped
\* iterator's own report in every state.
C5_Original ==
    (wrapped /\ ExactSize) =>
        /\ size_hint = InnerSizeHint(inner)
        /\ len = InnerSizeHint(inner).lo

\* C5 as amended: the wrapper's size_hint and len equal the wrapped
\* iterator's own report plus the item held in the look-ahead buffer.
C5_ReportPlusBuffered ==
    (wrapped /\ ExactSize) =>
        /\ size_hint.lo = InnerSizeHint(inner).lo + Buffered
        /\ size_hint.hi = Some(InnerSizeHint(inner).hi.val + Buffered)
        /\ len = InnerSizeHint(inner).lo + Buffered

C5_Witness ==
    /\ wrapped
    /\ ExactSize
    /\ Buffered = 1
    /\ InnerSizeHint(inner).lo >= 1
    /\ len = InnerSizeHint(inner).lo + 1

\* C6: when the k-th element (k <= n) is returned, the wrapped iterator has
\* been pulled exactly k + 1 times.
C6_PullsAtReturn ==
    \A i \in 1..Len(out) : i <= Len(src) => out[i].pulls = i + 1

C6_Witness ==
    /\ Len(src) >= 2
    /\ Len(out) = Len(src)
    /\ out[Len(out)].pulls = Len(src) + 1

\* C7: before the first next() call, construction included, the wrapped
\* iterator has not been pulled.
C7_NoPullAtConstruction == calls = 0 => inner.pulls = 0

C7_Witness == wrapped /\ calls = 0 /\ Len(src) >= 1 /\ inner.pulls = 0

\* C8: a skip_first call on one gate leaves every other gate unchanged, and
\* whether its effect runs depends only on whether it is that gate's own
\* first call.
C8_GatesIndependent ==
    [][\A g \in Gates :
          Len(given'[g]) > Len(given[g]) =>
              /\ \A h \in Gates \ {g} :
                    gate'[h] = gate[h] /\ given'[h] = given[h]
              /\ v' = IF Len(given[g]) = 0
                      THEN v
                      ELSE Append(v, [gate |-> g, call |-> Len(given'[g]),
                                      val |-> given'[g][Len(given'[g])]])]_vars

C8_Witness ==
    /\ Len(given["a"]) = 2
    /\ Len(given["b"]) = 2
    /\ Len(v) = 2
    /\ v[1].gate = "b"
    /\ v[2].gate = "a"

\* C9: in a drain of a sequence of length n the i-th status is first-only
\* iff i = 1 and n > 1, last-only iff i = n and n > 1, in-between iff
\* 1 < i < n; never first-only and last-only at once.
C9_OnlyQueries ==
    Draining =>
        \A i \in 1..Len(out) :
            LET s == out[i].status
                n == Len(src)
            IN  /\ is_first_only(s) = (i = 1 /\ n > 1)
                /\ is_last_only(s) = (i = n /\ n > 1)
                /\ is_in_between(s) = (1 < i /\ i < n)
                /\ ~(is_first_only(s) /\ is_last_only(s))

C9_Witness ==
    /\ Drained
    /\ Len(src) = 1
    /\ Len(out) = 1
    /\ is_first(out[1].status) /\ is_last(out[1].status)
    /\ ~is_first_only(out[1].status)

\* C10 as stated: the wrapped iterator is never pulled after it has
\* signalled exhaustion, so it is pulled at most n + 1 times.
C10_Original == inner.late = 0 /\ inner.pulls <= Len(src) + 1

\* C10 as amended: every next() call pulls, the first twice and each later
\* one once, so c >= 1 calls have pulled c + 1 times, and every call after
\* the n-th pulls the already exhausted iterator once more.
C10_PullsFollowCalls ==
    calls >= 1 =>
        /\ inner.pulls = calls + 1
        /\ inner.late = (IF calls > Len(src) THEN calls - Len(src) ELSE 0)

C10_Witness ==
    /\ Len(src) >= 1
    /\ calls = Len(src) + 2
    /\ inner.late = 2

\* the look-ahead buffer holds an item / holds exactly the item x
HoldsItem == peeked.some /\ peeked.val.some
Holds(x) == peeked = SomePeek(Some(x))

\* C11 as stated: from construction onward the look-ahead buffer holds the
\* next element not yet returned if there is one, and holds no element if
\* the sequence is exhausted.
C11_Original ==
    wrapped =>
        /\ Len(out) < Len(src) => Holds(src[Len(out) + 1])
        /\ Len(out) >= Len(src) => ~HoldsItem

\* C11 as amended: the buffer is unprimed from construction until the first
\* next() call; after that call it holds the next element not yet returned
\* if there is one, and over a fused iterator it holds no element once the
\* sequence is exhausted.
C11_BufferAfterFirstCall ==
    wrapped =>
        /\ calls = 0 => peeked = NoPeek
        /\ (calls >= 1 /\ Len(out) < Len(src)) => Holds(src[Len(out) + 1])
        /\ (calls >= 1 /\ Len(out) >= Len(src) /\ fused) =>
              peeked = SomePeek(None)

C11_Witness ==
    /\ wrapped
    /\ calls >= 2
    /\ Len(out) < Len(src)
    /\ Holds(src[Len(out) + 1])
    /\ src[Len(out) + 1] # src[Len(out)]

\* C13: over a fused wrapped iterator the wrapper is fused: every next()
\* call made after one has returned None returns None and yields nothing.
C13_FusedWrapper ==
    [][(fused /\ nones >= 1 /\ calls' = calls + 1) =>
          /\ ~ret'.some
          /\ nones' = nones + 1
          /\ out' = out]_vars

C13_Witness ==
    /\ fused
    /\ Len(src) >= 2
    /\ nones >= 3
    /\ inner.late >= 2
    /\ ~ret.some

\* C14: over an exact-size iterator of n items, after j pairs were yielded
\* the wrapper's size_hint is (n - j, Some(n - j)) and its len is n - j.
C14_ExactRemaining ==
    (wrapped /\ ExactSize) =>
        LET n == Len(src)
            j == Len(out)
        IN  /\ j <= n
            /\ size_hint = [lo |-> n - j, hi |-> Some(n - j)]
            /\ len = n - j

C14_Witness ==
    /\ wrapped
    /\ ExactSize
    /\ Len(out) >= 1
    /\ Len(src) >= Len(out) + 2
    /\ len = Len(src) - Len(out)
    /\ HoldsItem

\* C12: the first skip_first call on a gate clears its flag, and a gate
\* whose flag is clear keeps it clear through every later call, also one
\* whose effect panics; so each gate suppresses at most one effect.
C12_PassThroughForever ==
    [][\A g \in Gates :
          /\ (gate[g].made /\ Len(given'[g]) > Len(given[g])) =>
                ~gate'[g].first
          /\ (gate[g].made /\ ~gate[g].first) =>
                (gate'[g].made /\ ~gate'[g].first)
          /\ Len(given'[g]) - Len(Executed(g)') <= 1]_vars

C12_Witness ==
    \E g \in Gates :
        /\ gate[g].made
        /\ ~gate[g].first
        /\ unwound[g] >= 1
        /\ Len(given[g]) = 3
        /\ Panics(given[g][2])
        /\ Len(Executed(g)) = 2

====
